---- MODULE Spec2Model ----
(***************************************************************************)
(* Attendly time clock: the Google Apps Script backend                     *)
(* (src/google-apps-script.js, and its variant src/unnamed/part_001) over  *)
(* its two sheets, the "Employee Database" (directory) and the             *)
(* "Attendance Log" (ledger).                                              *)
(*                                                                         *)
(* Text is a sequence of one-character strings, so that trim(), split()    *)
(* and Number() are computed and not assumed.  A sheet is the sequence of  *)
(* its data rows (row 1, the header, is left out: data index k is sheet    *)
(* row k + 1).  A cell reads back as what was written to it.               *)
(***************************************************************************)
EXTENDS Integers, Sequences, FiniteSets, TLC

VARIABLES
    directory,   \* data rows of the "Employee Database" sheet: [name, dob]
    ledger,      \* data rows of the "Attendance Log" sheet
    now,         \* the wall clock: [day, minute] (minute of the day)
    request,     \* the last request handled, with the clock reading it saw
    before,      \* the ledger as that request found it
    response,    \* the response to it
    calc,        \* the last direct call of calculateWorkingHours and its result
    check,       \* the last direct call of validateEmployee and its result
    handlers,    \* the requests being handled at the same time, each with its locals
    listed,      \* the last getEmployees request and its response
    twin         \* the second backend variant run side by side: its ledger and response

vars ==
    <<directory, ledger, now, request, before, response, calc, check, handlers, listed, twin>>

----------------------------------------------------------------------------
(* Bounds *)

\* the ledger is explored up to MaxRows data rows
MaxRows == 2

\* at most MaxDirRows data rows in a directory drawn by InitValidate
MaxDirRows == 2

----------------------------------------------------------------------------
(* Text *)

DigitChars == <<"0", "1", "2", "3", "4", "5", "6", "7", "8", "9">>

IsSpace(c) == c = " "

RECURSIVE trimStart(_)
trimStart(s) ==
    IF s # <<>> /\ IsSpace(Head(s)) THEN trimStart(Tail(s)) ELSE s

RECURSIVE trimEnd(_)
trimEnd(s) ==
    IF s # <<>> /\ IsSpace(s[Len(s)]) THEN trimEnd(SubSeq(s, 1, Len(s) - 1)) ELSE s

\* String.prototype.trim
trim(s) == trimEnd(trimStart(s))

\* two decimal digits, as Utilities.formatDate pads 'HH', 'mm', 'dd'
Pad2(n) == <<DigitChars[(n \div 10) + 1], DigitChars[(n % 10) + 1]>>

\* a calendar date is [year, month, day]
\* Utilities.formatDate(d, TIMEZONE, 'yyyy-MM-dd')
formatDate(d) ==
    Pad2(d.year \div 100) \o Pad2(d.year % 100) \o <<"-">> \o Pad2(d.month)
        \o <<"-">> \o Pad2(d.day)

\* Utilities.formatDate(d, TIMEZONE, 'HH:mm') of minute-of-day m
formatTime(m) == Pad2(m \div 60) \o <<":">> \o Pad2(m % 60)

----------------------------------------------------------------------------
(* Numbers: a JavaScript number is [nan, v]; total hours are kept in       *)
(* hundredths of an hour (v = 825 is 8.25), everything else in units.      *)

NaN == [nan |-> TRUE, v |-> 0]
Num(v) == [nan |-> FALSE, v |-> v]

DigitValue(c) == CHOOSE d \in 0..9 : DigitChars[d + 1] = c

IsDigit(c) == \E d \in 0..9 : DigitChars[d + 1] = c

RECURSIVE DigitsValue(_, _)
DigitsValue(s, acc) ==
    IF s = <<>> THEN acc ELSE DigitsValue(Tail(s), acc * 10 + DigitValue(Head(s)))

\* Number(text): surrounding white space is dropped, the empty text is 0, a
\* run of decimal digits is its value, anything else is NaN
Number(s) ==
    LET t == trim(s) IN
    IF \A i \in 1..Len(t) : IsDigit(t[i]) THEN Num(DigitsValue(t, 0)) ELSE NaN

\* text.split(':'): the pieces between the colons
RECURSIVE split(_, _, _)
split(s, piece, done) ==
    IF s = <<>> THEN Append(done, piece)
    ELSE IF Head(s) = ":" THEN split(Tail(s), <<>>, Append(done, piece))
    ELSE split(Tail(s), Append(piece, Head(s)), done)

\* const [hour, minute] = t.split(':').map(Number): a missing piece is
\* undefined, which setHours takes as NaN
hourMinute(t) ==
    LET parts == split(t, <<>>, <<>>) IN
    [hour   |-> Number(parts[1]),
     minute |-> IF Len(parts) >= 2 THEN Number(parts[2]) ELSE NaN]

MsPerMinute == 60000
MsPerHour == 3600000
MsPerDay == 86400000

\* d = new Date(); d.setHours(hour, minute, 0, 0): milliseconds since the
\* midnight of the reference day, an invalid date when a part is NaN.  Both
\* calls of new Date() fall on one reference day, and days have 24 hours.
setHours(hm) ==
    IF hm.hour.nan \/ hm.minute.nan THEN NaN
    ELSE Num(hm.hour.v * MsPerHour + hm.minute.v * MsPerMinute)

\* parseFloat((ms / (1000 * 60 * 60)).toFixed(2)), in hundredths of an hour:
\* toFixed rounds the magnitude to the nearest hundredth
toFixed2(ms) ==
    IF ms >= 0 THEN (ms + (MsPerHour \div 200)) \div (MsPerHour \div 100)
    ELSE -(((-ms) + (MsPerHour \div 200)) \div (MsPerHour \div 100))

\* calculateWorkingHours without the overnight step
calculateWorkingHoursSameDay(punchInTime, punchOutTime) ==
    LET punchIn == setHours(hourMinute(punchInTime))
        punchOut == setHours(hourMinute(punchOutTime))
    IN IF punchIn.nan \/ punchOut.nan THEN NaN
       ELSE Num(toFixed2(punchOut.v - punchIn.v))

calculateWorkingHours(punchInTime, punchOutTime) ==
    LET punchIn == setHours(hourMinute(punchInTime))
        out0 == setHours(hourMinute(punchOutTime))
        \* a comparison with an invalid date is false
        punchOut == IF ~punchIn.nan /\ ~out0.nan /\ out0.v < punchIn.v
                    THEN Num(out0.v + MsPerDay) ELSE out0
    IN IF punchIn.nan \/ punchOut.nan THEN NaN
       ELSE Num(toFixed2(punchOut.v - punchIn.v))

----------------------------------------------------------------------------
(* Sheets *)

NoDate == [year |-> 0, month |-> 0, day |-> 0]

\* a cell of a date column holds text or a Date object
TextCell(s) == [isDate |-> FALSE, text |-> s, date |-> NoDate]
DateCell(d) == [isDate |-> TRUE, text |-> <<>>, date |-> d]

\* the Total Hours cell: '' until the punch-out writes a number
NoHours == [empty |-> TRUE, n |-> Num(0)]
Hours(n) == [empty |-> FALSE, n |-> n]

\* the row processPunchIn appends
\* Columns: Employee Name | Date | Punch In Time | Punch Out Time | Total Hours | Status
\* NewRow with the time one column to the right
NewRowShifted(employeeName, currentDate, currentTime) ==
    [name |-> employeeName, date |-> TextCell(currentDate), punchIn |-> <<>>,
     punchOut |-> currentTime, totalHours |-> NoHours, status |-> "In Progress"]

NewRow(employeeName, currentDate, currentTime) ==
    [name |-> employeeName, date |-> TextCell(currentDate), punchIn |-> currentTime,
     punchOut |-> <<>>, totalHours |-> NoHours, status |-> "In Progress"]

STANDARD_WORK_HOURS == 8

----------------------------------------------------------------------------
(* Responses: createJsonResponse(success, message); a message is its       *)
(* template text and the values interpolated into it.                      *)

Message(text) == [text |-> text, time |-> <<>>, hours |-> Num(0), status |-> ""]

MessageAt(text, time) == [Message(text) EXCEPT !.time = time]

createJsonResponse(success, message) == [success |-> success, message |-> message]

----------------------------------------------------------------------------
(* validateEmployee *)

\* the stored date of birth as text: a Date is formatted, text is trimmed
dobString(dob) == IF dob.isDate THEN formatDate(dob.date) ELSE trim(dob.text)

\* for (const row of employeeData): the first row whose name matches decides
\* validateRows going on to later rows after a date of birth that differs
RECURSIVE validateRowsAnyMatch(_, _, _)
validateRowsAnyMatch(employeeData, employeeName, dateOfBirth) ==
    IF employeeData = <<>> THEN FALSE
    ELSE LET row == Head(employeeData) IN
         \/ /\ row.name # <<>> /\ trim(row.name) = trim(employeeName)
            /\ dobString(row.dob) = trim(dateOfBirth)
         \/ validateRowsAnyMatch(Tail(employeeData), employeeName, dateOfBirth)

RECURSIVE validateRows(_, _, _)
validateRows(employeeData, employeeName, dateOfBirth) ==
    IF employeeData = <<>> THEN FALSE
    ELSE LET row == Head(employeeData) IN
         IF row.name # <<>> /\ trim(row.name) = trim(employeeName)
         THEN dobString(row.dob) = trim(dateOfBirth)
         ELSE validateRows(Tail(employeeData), employeeName, dateOfBirth)

\* getRange(2, 1, getLastRow() - 1, 2) throws on a sheet without data rows,
\* and the catch returns false
validateEmployee(dir, employeeName, dateOfBirth) ==
    IF Len(dir) = 0 THEN FALSE
    ELSE validateRows(dir, employeeName, dateOfBirth)

----------------------------------------------------------------------------
(* findTodayRecord *)

NullRecord == [found |-> FALSE, row |-> 0, punchInTime |-> <<>>, punchOutTime |-> <<>>]

\* the date cell as text: a Date is formatted, text is taken as it is
dateString(date) == IF date.isDate THEN formatDate(date.date) ELSE date.text

\* scanBackwards returning the first match from the top of the sheet
RECURSIVE scanFromTop(_, _, _, _)
scanFromTop(data, k, employeeName, currentDate) ==
    IF k < 1 THEN NullRecord
    ELSE LET above == scanFromTop(data, k - 1, employeeName, currentDate) IN
         IF above.found THEN above
         ELSE IF trim(data[k].name) = trim(employeeName)
                 /\ dateString(data[k].date) = currentDate
         THEN [found |-> TRUE, row |-> k + 1,
               punchInTime |-> data[k].punchIn, punchOutTime |-> data[k].punchOut]
         ELSE NullRecord

\* for (let i = data.length - 1; i >= 0; i--): k is the data index i + 1, and
\* the sheet row is i + 2
RECURSIVE scanBackwards(_, _, _, _)
scanBackwards(data, k, employeeName, currentDate) ==
    IF k < 1 THEN NullRecord
    ELSE IF trim(data[k].name) = trim(employeeName)
            /\ dateString(data[k].date) = currentDate
    THEN [found |-> TRUE, row |-> k + 1,
          punchInTime |-> data[k].punchIn, punchOutTime |-> data[k].punchOut]
    ELSE scanBackwards(data, k - 1, employeeName, currentDate)

\* findTodayRecord returning the last row of the employee, of any date
findTodayRecordAnyDay(attendanceSheet, employeeName, currentDate) ==
    LET rows == {k \in DOMAIN attendanceSheet :
                    trim(attendanceSheet[k].name) = trim(employeeName)}
    IN IF rows = {} THEN NullRecord
       ELSE LET k == CHOOSE r \in rows : \A j \in rows : j <= r IN
            [found |-> TRUE, row |-> k + 1,
             punchInTime |-> attendanceSheet[k].punchIn,
             punchOutTime |-> attendanceSheet[k].punchOut]

\* findTodayRecord starting its scan one row too early
findTodayRecordOffByOne(attendanceSheet, employeeName, currentDate) ==
    IF Len(attendanceSheet) + 1 < 2 THEN NullRecord
    ELSE scanBackwards(attendanceSheet, Len(attendanceSheet) - 1, employeeName, currentDate)

findTodayRecord(attendanceSheet, employeeName, currentDate) ==
    IF Len(attendanceSheet) + 1 < 2 THEN NullRecord
    ELSE scanBackwards(attendanceSheet, Len(attendanceSheet), employeeName, currentDate)

----------------------------------------------------------------------------
(* The punch workflow: each operator gives the response and the ledger     *)
(* the handler leaves behind.                                              *)

\* processPunchIn without its duplicate check
processPunchInUnchecked(attendanceSheet, employeeName, currentDate, currentTime) ==
    [response |-> createJsonResponse(TRUE, MessageAt("Punch-in successful at", currentTime)),
     ledger |-> Append(attendanceSheet, NewRow(employeeName, currentDate, currentTime))]

\* processPunchIn refusing only while the found record is still open
processPunchInOpenOnly(attendanceSheet, employeeName, currentDate, currentTime) ==
    LET existingRecord == findTodayRecord(attendanceSheet, employeeName, currentDate) IN
    IF existingRecord.found /\ existingRecord.punchInTime # <<>>
       /\ existingRecord.punchOutTime = <<>>
    THEN [response |-> createJsonResponse(FALSE,
              MessageAt("You already punched in today at", existingRecord.punchInTime)),
          ledger |-> attendanceSheet]
    ELSE [response |-> createJsonResponse(TRUE,
              MessageAt("Punch-in successful at", currentTime)),
          ledger |-> Append(attendanceSheet,
                            NewRow(employeeName, currentDate, currentTime))]

processPunchIn(attendanceSheet, employeeName, currentDate, currentTime) ==
    LET existingRecord == findTodayRecord(attendanceSheet, employeeName, currentDate) IN
    IF existingRecord.found /\ existingRecord.punchInTime # <<>>
    THEN [response |-> createJsonResponse(FALSE,
              MessageAt("You already punched in today at", existingRecord.punchInTime)),
          ledger |-> attendanceSheet]
    ELSE [response |-> createJsonResponse(TRUE,
              MessageAt("Punch-in successful at", currentTime)),
          ledger |-> Append(attendanceSheet,
                            NewRow(employeeName, currentDate, currentTime))]

\* statusOf with > for >=
statusOfStrict(totalHours) ==
    IF ~totalHours.nan /\ totalHours.v > STANDARD_WORK_HOURS * 100
    THEN "On Time" ELSE "Less Hours"

\* totalHours >= STANDARD_WORK_HOURS ? 'On Time' : 'Less Hours' (NaN >= 8 is false)
statusOf(totalHours) ==
    IF ~totalHours.nan /\ totalHours.v >= STANDARD_WORK_HOURS * 100
    THEN "On Time" ELSE "Less Hours"

\* closeRecord without the write of the status
closeRecordKeepStatus(attendanceSheet, existingRecord, currentTime) ==
    LET totalHours == calculateWorkingHours(existingRecord.punchInTime, currentTime)
        status == statusOf(totalHours)
        k == existingRecord.row - 1
    IN [response |-> createJsonResponse(TRUE,
            [text |-> "Punch-out successful at", time |-> currentTime,
             hours |-> totalHours, status |-> status]),
        ledger |-> [attendanceSheet EXCEPT ![k].punchOut = currentTime,
                                           ![k].totalHours = Hours(totalHours)]]

\* closeRecord taking the sheet row for the index of the data row
closeRecordRowBelow(attendanceSheet, existingRecord, currentTime) ==
    LET totalHours == calculateWorkingHours(existingRecord.punchInTime, currentTime)
        status == statusOf(totalHours)
        k == IF existingRecord.row <= Len(attendanceSheet)
             THEN existingRecord.row ELSE existingRecord.row - 1
    IN [response |-> createJsonResponse(TRUE,
            [text |-> "Punch-out successful at", time |-> currentTime,
             hours |-> totalHours, status |-> status]),
        ledger |-> [attendanceSheet EXCEPT ![k].punchOut = currentTime,
                                           ![k].totalHours = Hours(totalHours),
                                           ![k].status = status]]

\* the update processPunchOut makes to sheet row existingRecord.row
closeRecord(attendanceSheet, existingRecord, currentTime) ==
    LET totalHours == calculateWorkingHours(existingRecord.punchInTime, currentTime)
        status == statusOf(totalHours)
        k == existingRecord.row - 1
    IN [response |-> createJsonResponse(TRUE,
            [text |-> "Punch-out successful at", time |-> currentTime,
             hours |-> totalHours, status |-> status]),
        ledger |-> [attendanceSheet EXCEPT ![k].punchOut = currentTime,
                                           ![k].totalHours = Hours(totalHours),
                                           ![k].status = status]]

\* processPunchOut asking only whether a row was found
processPunchOutAnyRow(attendanceSheet, employeeName, currentDate, currentTime) ==
    LET existingRecord == findTodayRecord(attendanceSheet, employeeName, currentDate) IN
    IF ~existingRecord.found
    THEN [response |-> createJsonResponse(FALSE,
              Message("No punch-in record found for today. Please punch in first.")),
          ledger |-> attendanceSheet]
    ELSE IF existingRecord.punchOutTime # <<>>
    THEN [response |-> createJsonResponse(FALSE,
              MessageAt("You already punched out today at", existingRecord.punchOutTime)),
          ledger |-> attendanceSheet]
    ELSE closeRecord(attendanceSheet, existingRecord, currentTime)

\* processPunchOut without the check for a recorded punch-out
processPunchOutAgain(attendanceSheet, employeeName, currentDate, currentTime) ==
    LET existingRecord == findTodayRecord(attendanceSheet, employeeName, currentDate) IN
    IF ~existingRecord.found \/ existingRecord.punchInTime = <<>>
    THEN [response |-> createJsonResponse(FALSE,
              Message("No punch-in record found for today. Please punch in first.")),
          ledger |-> attendanceSheet]
    ELSE closeRecord(attendanceSheet, existingRecord, currentTime)

processPunchOut(attendanceSheet, employeeName, currentDate, currentTime) ==
    LET existingRecord == findTodayRecord(attendanceSheet, employeeName, currentDate) IN
    IF ~existingRecord.found \/ existingRecord.punchInTime = <<>>
    THEN [response |-> createJsonResponse(FALSE,
              Message("No punch-in record found for today. Please punch in first.")),
          ledger |-> attendanceSheet]
    ELSE IF existingRecord.punchOutTime # <<>>
    THEN [response |-> createJsonResponse(FALSE,
              MessageAt("You already punched out today at", existingRecord.punchOutTime)),
          ledger |-> attendanceSheet]
    ELSE closeRecord(attendanceSheet, existingRecord, currentTime)

\* the current date of the clock
Today(clock) == [year |-> 2025, month |-> 6, day |-> clock.day]

\* processPunch telling an unknown name from a wrong date of birth
processPunchTelling(dir, attendanceSheet, clock, employeeName, dateOfBirth, punchType) ==
    IF employeeName = <<>> \/ dateOfBirth = <<>> \/ punchType = ""
    THEN [response |-> createJsonResponse(FALSE, Message("Missing required parameters.")),
          ledger |-> attendanceSheet]
    ELSE IF punchType # "in" /\ punchType # "out"
    THEN [response |-> createJsonResponse(FALSE, Message("Invalid punch type.")),
          ledger |-> attendanceSheet]
    ELSE IF \A i \in DOMAIN dir : ~(dir[i].name # <<>> /\ trim(dir[i].name) = trim(employeeName))
    THEN [response |-> createJsonResponse(FALSE, Message("Employee not found.")),
          ledger |-> attendanceSheet]
    ELSE IF ~validateEmployee(dir, employeeName, dateOfBirth)
    THEN [response |-> createJsonResponse(FALSE, Message("Date of birth is incorrect.")),
          ledger |-> attendanceSheet]
    ELSE LET currentDate == formatDate(Today(clock))
             currentTime == formatTime(clock.minute)
         IN IF punchType = "in"
            THEN processPunchIn(attendanceSheet, employeeName, currentDate, currentTime)
            ELSE processPunchOut(attendanceSheet, employeeName, currentDate, currentTime)

\* processPunch validating the employee after the punch has been processed
processPunchLateCheck(dir, attendanceSheet, clock, employeeName, dateOfBirth, punchType) ==
    IF employeeName = <<>> \/ dateOfBirth = <<>> \/ punchType = ""
    THEN [response |-> createJsonResponse(FALSE, Message("Missing required parameters.")),
          ledger |-> attendanceSheet]
    ELSE IF punchType # "in" /\ punchType # "out"
    THEN [response |-> createJsonResponse(FALSE, Message("Invalid punch type.")),
          ledger |-> attendanceSheet]
    ELSE LET currentDate == formatDate(Today(clock))
             currentTime == formatTime(clock.minute)
             done == IF punchType = "in"
                     THEN processPunchIn(attendanceSheet, employeeName, currentDate,
                                         currentTime)
                     ELSE processPunchOut(attendanceSheet, employeeName, currentDate,
                                          currentTime)
         IN IF ~validateEmployee(dir, employeeName, dateOfBirth)
            THEN [response |-> createJsonResponse(FALSE,
                      Message("Employee not found or date of birth is incorrect.")),
                  ledger |-> done.ledger]
            ELSE done

processPunch(dir, attendanceSheet, clock, employeeName, dateOfBirth, punchType) ==
    IF employeeName = <<>> \/ dateOfBirth = <<>> \/ punchType = ""
    THEN [response |-> createJsonResponse(FALSE, Message("Missing required parameters.")),
          ledger |-> attendanceSheet]
    ELSE IF punchType # "in" /\ punchType # "out"
    THEN [response |-> createJsonResponse(FALSE, Message("Invalid punch type.")),
          ledger |-> attendanceSheet]
    ELSE IF ~validateEmployee(dir, employeeName, dateOfBirth)
    THEN [response |-> createJsonResponse(FALSE,
              Message("Employee not found or date of birth is incorrect.")),
          ledger |-> attendanceSheet]
    ELSE LET currentDate == formatDate(Today(clock))
             currentTime == formatTime(clock.minute)
         IN IF punchType = "in"
            THEN processPunchIn(attendanceSheet, employeeName, currentDate, currentTime)
            ELSE processPunchOut(attendanceSheet, employeeName, currentDate, currentTime)

\* doPost: a punch is processed, any other action is refused
doPost(dir, attendanceSheet, clock, data) ==
    IF data.action = "punch"
    THEN processPunch(dir, attendanceSheet, clock, data.employeeName, data.dateOfBirth,
                      data.punchType)
    ELSE [response |-> createJsonResponse(FALSE, Message("Unrecognized action")),
          ledger |-> attendanceSheet]

----------------------------------------------------------------------------
(* Inputs *)

Jane == <<"J", "a", "n", "e">>
John == <<"J", "o", "h", "n">>
Zed == <<"Z", "e", "d">>

JaneDob == <<"1", "9", "9", "0", "-", "0", "7", "-", "2", "2">>
JohnDob == <<"1", "9", "8", "5", "-", "0", "3", "-", "1", "5">>

\* the rows initializeSheet writes
SampleDirectory ==
    <<[name |-> John, dob |-> TextCell(JohnDob)],
      [name |-> Jane, dob |-> TextCell(JaneDob)]>>

\* a directory as an administrator may leave it: a padded name with a Date
\* of birth, a blank row, and a second row for the same name
EditedDirectory ==
    <<[name |-> Jane \o <<" ">>, dob |-> DateCell([year |-> 1990, month |-> 7, day |-> 22])],
      [name |-> <<>>, dob |-> TextCell(<<>>)],
      [name |-> Jane, dob |-> TextCell(JohnDob)]>>

Directories == {<<>>, SampleDirectory, EditedDirectory}

RequestNames == {<<>>, Jane, Jane \o <<" ">>, John, Zed}
RequestDobs == {<<>>, JaneDob, <<" ">> \o JaneDob, JohnDob}

PunchRequest(n, d, t) == [employeeName |-> n, dateOfBirth |-> d, punchType |-> t]

\* the punch requests sent: right and padded credentials, an unknown name, a
\* wrong date of birth, missing fields and a punch type that does not exist
Requests ==
    {PunchRequest(Jane, JaneDob, t) : t \in {"in", "out"}}
    \cup {PunchRequest(John, JohnDob, t) : t \in {"in", "out"}}
    \cup {PunchRequest(Jane \o <<" ">>, <<" ">> \o JaneDob, "out"),
          PunchRequest(Zed, JaneDob, "in"), PunchRequest(Jane, JohnDob, "out"),
          PunchRequest(<<>>, JaneDob, "in"), PunchRequest(Jane, <<>>, "out"),
          PunchRequest(Jane, JaneDob, ""), PunchRequest(Jane, JaneDob, "break")}

\* the clock readings of a day, in minutes: 09:00, 17:00, 17:15
ClockMinutes == {540, 1020, 1035}

\* the days the clock runs over
Days == 1..2

Clocks == [day : Days, minute : ClockMinutes]

Later(c, d) == d.day > c.day \/ (d.day = c.day /\ d.minute > c.minute)

NoRequest ==
    [action |-> "none", employeeName |-> <<>>, dateOfBirth |-> <<>>, punchType |-> "",
     at |-> [day |-> 0, minute |-> 0]]

NoResponse == createJsonResponse(FALSE, Message(""))

NoCalc ==
    [called |-> FALSE, inMinute |-> 0, outMinute |-> 0,
     punchInTime |-> <<>>, punchOutTime |-> <<>>, result |-> NaN]

NoCheck == [called |-> FALSE, employeeName |-> <<>>, dateOfBirth |-> <<>>, result |-> FALSE]

\* the executions of the script that may run at the same time
Handlers == {1, 2}

\* an execution that has no request: its locals are unset
IdleHandler ==
    [pc |-> "idle", employeeName |-> <<>>, punchType |-> "",
     at |-> [day |-> 0, minute |-> 0], existingRecord |-> NullRecord,
     response |-> NoResponse]

NoHandlers == [p \in Handlers |-> IdleHandler]

NoListing ==
    [called |-> FALSE, success |-> FALSE, message |-> Message(""), employees |-> <<>>]

NoTwin == [timezone |-> 0, ledger |-> <<>>, response |-> NoResponse]

----------------------------------------------------------------------------
(* The sequential system: requests are handled one at a time, each to its  *)
(* end, and the clock moves forward between them.                          *)

Init ==
    /\ directory \in Directories
    /\ ledger = <<>>
    /\ now \in {c \in Clocks : c.day = 1}
    /\ request = NoRequest
    /\ before = <<>>
    /\ response = NoResponse
    /\ calc = NoCalc
    /\ check = NoCheck
    /\ handlers = NoHandlers
    /\ listed = NoListing
    /\ twin = NoTwin

\* doPost with data.action === 'punch'
Punch(employeeName, dateOfBirth, punchType) ==
    LET done == processPunch(directory, ledger, now, employeeName, dateOfBirth, punchType) IN
    /\ request' = [action |-> "punch", employeeName |-> employeeName,
                   dateOfBirth |-> dateOfBirth, punchType |-> punchType, at |-> now]
    /\ before' = ledger
    /\ response' = done.response
    /\ ledger' = done.ledger
    /\ Len(done.ledger) <= MaxRows
    /\ UNCHANGED <<directory, now, calc, check, handlers, listed, twin>>

\* time passes
Tick ==
    /\ \E c \in Clocks : Later(now, c) /\ now' = c
    /\ UNCHANGED <<directory, ledger, request, before, response, calc, check, handlers, listed, twin>>

Next ==
    \/ \E r \in Requests : Punch(r.employeeName, r.dateOfBirth, r.punchType)
    \/ Tick

Spec == Init /\ [][Next]_vars

----------------------------------------------------------------------------
(* The same handlers over a ledger that already holds rows, as typed into  *)
(* the sheet by hand or left by overlapping requests: a row without times, *)
(* a second row for one employee and day, two open rows for one employee   *)
(* and day, rows of two employees, a padded name, a Date in the date       *)
(* column.                                                                 *)

DayOne == [year |-> 2025, month |-> 6, day |-> 1]

BlankRow(name) ==
    [name |-> name, date |-> TextCell(formatDate(DayOne)), punchIn |-> <<>>,
     punchOut |-> <<>>, totalHours |-> NoHours, status |-> ""]

SeedLedgers ==
    {<<BlankRow(Jane)>>,
     <<NewRow(Jane, formatDate(DayOne), formatTime(540)), BlankRow(Jane)>>,
     <<NewRow(Jane, formatDate(DayOne), formatTime(540)),
       NewRow(Jane, formatDate(DayOne), formatTime(1020))>>,
     <<NewRow(Jane, formatDate(DayOne), formatTime(540)),
       NewRow(John, formatDate(DayOne), formatTime(540))>>,
     <<[NewRow(<<" ">> \o Jane, <<>>, formatTime(540)) EXCEPT !.date = DateCell(DayOne)]>>}

InitSeeded ==
    /\ directory = SampleDirectory
    /\ ledger \in SeedLedgers
    /\ now \in {c \in Clocks : c.day = 1}
    /\ request = NoRequest
    /\ before = ledger
    /\ response = NoResponse
    /\ calc = NoCalc
    /\ check = NoCheck
    /\ handlers = NoHandlers
    /\ listed = NoListing
    /\ twin = NoTwin

SpecSeeded == InitSeeded /\ [][Next]_vars

----------------------------------------------------------------------------
(* Vocabulary of the properties *)

\* the text of the date the clock reading c falls on
DateOf(c) == formatDate(Today(c))

\* row r is a record of employee e on date d
RecordOf(r, e, d) == trim(r.name) = trim(e) /\ dateString(r.date) = d

IsOpen(r) == r.punchIn # <<>> /\ r.punchOut = <<>>

IsTerminal(r) == r.punchIn # <<>> /\ r.punchOut # <<>>

\* the data rows of sheet that are records of e on d
RecordsOf(sheet, e, d) == {k \in DOMAIN sheet : RecordOf(sheet[k], e, d)}

Employees == {Jane, John, Zed}

Dates == {DateOf(c) : c \in Clocks}

IsPunch == request.action = "punch"

\* the request had every field and a punch type that exists
WellFormed ==
    /\ IsPunch
    /\ request.employeeName # <<>>
    /\ request.dateOfBirth # <<>>
    /\ request.punchType \in {"in", "out"}

\* directory row r is a row for the name n
RowFor(r, n) == r.name # <<>> /\ trim(r.name) = trim(n)

KnownName(dir, n) == \E i \in DOMAIN dir : RowFor(dir[i], n)

\* row i is the first row of the directory for its name
FirstForName(dir, i) == \A j \in 1..(i - 1) : ~RowFor(dir[j], dir[i].name)

\* the date of birth of row r as the ISO text it stands for
StoredDob(r) == IF r.dob.isDate THEN formatDate(r.dob.date) ELSE trim(r.dob.text)

\* the credentials are those of the first directory row for the name
RightCredentials(dir, n, d) ==
    \E i \in DOMAIN dir :
        RowFor(dir[i], n) /\ FirstForName(dir, i) /\ StoredDob(dir[i]) = trim(d)

\* the request passed every check before the ledger is read
Validated ==
    WellFormed /\ RightCredentials(directory, request.employeeName, request.dateOfBirth)

PunchedIn == Validated /\ request.punchType = "in"

PunchedOut == Validated /\ request.punchType = "out"

\* the record of the requesting employee on the day of the request
Mine(sheet) == RecordsOf(sheet, request.employeeName, DateOf(request.at))

----------------------------------------------------------------------------
(* C1: from an empty ledger, with requests handled one at a time, no       *)
(* employee has two open records (punch-in set, punch-out empty) on one    *)
(* date.                                                                   *)

C1_AtMostOneOpen ==
    \A i, j \in DOMAIN ledger :
        (/\ IsOpen(ledger[i]) /\ IsOpen(ledger[j])
         /\ RecordOf(ledger[j], ledger[i].name, dateString(ledger[i].date)))
        => i = j

\* a second punch-in was refused while the record of the first is open
C1_Witness ==
    /\ PunchedIn
    /\ ~response.success
    /\ \E k \in Mine(ledger) : IsOpen(ledger[k])

----------------------------------------------------------------------------
(* C2: for every (employee, date) the record state moves only              *)
(* NONE -> IN_PROGRESS, by a successful punch-in, and                      *)
(* IN_PROGRESS -> TERMINAL, by a successful punch-out; a punch-out from    *)
(* NONE and a punch-in from IN_PROGRESS or TERMINAL are refused.           *)

StateOf(sheet, e, d) ==
    LET S == RecordsOf(sheet, e, d) IN
    IF S = {} THEN "NONE"
    ELSE IF \E k \in S : IsOpen(sheet[k]) THEN "IN_PROGRESS"
    ELSE "TERMINAL"

C2_StateMachine ==
    /\ \A e \in Employees, d \in Dates :
        LET old == StateOf(before, e, d)
            new == StateOf(ledger, e, d)
            mine == RecordOf([name |-> request.employeeName,
                              date |-> TextCell(DateOf(request.at))], e, d)
        IN \/ new = old
           \/ /\ old = "NONE" /\ new = "IN_PROGRESS"
              /\ mine /\ request.punchType = "in" /\ response.success
           \/ /\ old = "IN_PROGRESS" /\ new = "TERMINAL"
              /\ mine /\ request.punchType = "out" /\ response.success
    /\ IsPunch =>
        LET old == StateOf(before, request.employeeName, DateOf(request.at)) IN
        /\ (request.punchType = "out" /\ old = "NONE") => ~response.success
        /\ (request.punchType = "in" /\ old \in {"IN_PROGRESS", "TERMINAL"})
              => ~response.success

\* a record was closed by a punch-out, and one was opened on a later day
C2_Witness ==
    /\ PunchedIn /\ response.success
    /\ StateOf(ledger, request.employeeName, DateOf(request.at)) = "IN_PROGRESS"
    /\ \E d \in Dates : StateOf(ledger, request.employeeName, d) = "TERMINAL"

----------------------------------------------------------------------------
(* C3: a validated punch-in made when no record with a punch-in time       *)
(* exists for (employee, today) succeeds and appends exactly one row:      *)
(* punch-in = the current time, punch-out and total hours empty, status    *)
(* "In Progress".                                                          *)

Appended ==
    /\ response.success
    /\ Len(ledger) = Len(before) + 1
    /\ SubSeq(ledger, 1, Len(before)) = before
    /\ LET r == ledger[Len(ledger)] IN
        /\ r.name = request.employeeName
        /\ r.date = TextCell(DateOf(request.at))
        /\ r.punchIn = formatTime(request.at.minute)
        /\ r.punchOut = <<>>
        /\ r.totalHours.empty
        /\ r.status = "In Progress"

C3_PunchInAppends ==
    (PunchedIn /\ \A k \in Mine(before) : before[k].punchIn = <<>>) => Appended

\* the claim as made: it is enough that no open record exists
C3_AsClaimed ==
    (PunchedIn /\ \A k \in Mine(before) : ~IsOpen(before[k])) => Appended

\* a punch-in was accepted on the second day, after a record of the first
C3_Witness ==
    /\ PunchedIn /\ response.success
    /\ Mine(before) = {} /\ before # <<>>
    /\ request.at.day = 2

----------------------------------------------------------------------------
(* C4: a punch-in made when an open or a terminal record exists for        *)
(* (employee, today) is refused and leaves the ledger as it was; when the  *)
(* request passed validation the message holds that record's punch-in time.*)

C4_DuplicatePunchIn ==
    \A k \in Mine(before) :
        (IsPunch /\ request.punchType = "in"
         /\ (IsOpen(before[k]) \/ IsTerminal(before[k])))
        => /\ ~response.success
           /\ ledger = before
           /\ PunchedIn => response.message.time = before[k].punchIn

\* refused against a terminal record, with its 09:00 in the message
C4_Witness ==
    /\ PunchedIn /\ ~response.success
    /\ \E k \in Mine(before) : IsTerminal(before[k])
    /\ response.message.time = formatTime(540)

----------------------------------------------------------------------------
(* C5: a punch-out made when (employee, today) has no record, or when the  *)
(* record found (the last one) has no punch-in time, is refused and leaves *)
(* the whole ledger as it was.                                             *)

LastOf(S) == CHOOSE k \in S : \A j \in S : j <= k

C5_PunchOutWithoutPunchIn ==
    (/\ IsPunch /\ request.punchType = "out"
     /\ \/ Mine(before) = {}
        \/ before[LastOf(Mine(before))].punchIn = <<>>)
    => ~response.success /\ ledger = before

\* a validated punch-out found a row without a punch-in time
C5_Witness ==
    /\ PunchedOut /\ ~response.success
    /\ Mine(before) # {}
    /\ before[LastOf(Mine(before))].punchIn = <<>>

\* a validated punch-out found no row at all, in a ledger that has rows
C5_WitnessNone ==
    /\ PunchedOut /\ ~response.success
    /\ Mine(before) = {} /\ before # <<>>

----------------------------------------------------------------------------
(* C6: a validated punch-out on an open record succeeds and closes it; a   *)
(* validated punch-out on a closed record is refused with the recorded     *)
(* punch-out time in the message; and no request changes any field of a    *)
(* closed record.                                                          *)

C6_PunchOutOnce ==
    /\ \A k \in Mine(before) :
        /\ (PunchedOut /\ IsOpen(before[k]))
            => /\ response.success
               /\ ledger[k].punchOut = formatTime(request.at.minute)
        /\ (PunchedOut /\ IsTerminal(before[k]))
            => /\ ~response.success
               /\ response.message.time = before[k].punchOut
    /\ Len(ledger) >= Len(before)
    /\ \A k \in DOMAIN before : IsTerminal(before[k]) => ledger[k] = before[k]

\* the second punch-out, later the same day, was refused
C6_Witness ==
    /\ PunchedOut /\ ~response.success
    /\ \E k \in Mine(before) :
        /\ IsTerminal(before[k])
        /\ before[k].punchOut # formatTime(request.at.minute)
        /\ ledger[k] = before[k]

----------------------------------------------------------------------------
(* validateEmployee called on its own, over every directory of up to       *)
(* MaxDirRows rows.                                                        *)

JaneBirthday == [year |-> 1990, month |-> 7, day |-> 22]

DirectoryRows ==
    [name : {<<>>, Jane, Jane \o <<" ">>, John},
     dob : {TextCell(JaneDob), TextCell(<<" ">> \o JaneDob), DateCell(JaneBirthday),
            TextCell(JohnDob)}]

DirectoriesUpTo(n) == UNION {[1..k -> DirectoryRows] : k \in 0..n}

InitValidate ==
    /\ directory \in DirectoriesUpTo(MaxDirRows)
    /\ ledger = <<>>
    /\ now = [day |-> 1, minute |-> 540]
    /\ request = NoRequest
    /\ before = <<>>
    /\ response = NoResponse
    /\ calc = NoCalc
    /\ check = NoCheck
    /\ handlers = NoHandlers
    /\ listed = NoListing
    /\ twin = NoTwin

Validate(employeeName, dateOfBirth) ==
    /\ check' = [called |-> TRUE, employeeName |-> employeeName,
                 dateOfBirth |-> dateOfBirth,
                 result |-> validateEmployee(directory, employeeName, dateOfBirth)]
    /\ UNCHANGED <<directory, ledger, now, request, before, response, calc, handlers, listed, twin>>

NextValidate == \E n \in RequestNames, d \in RequestDobs : Validate(n, d)

SpecValidate == InitValidate /\ [][NextValidate]_vars

----------------------------------------------------------------------------
(* calculateWorkingHours called on its own, over times of the form HH:mm.  *)

CalcMinutes == {h * 60 + m : h \in 0..23, m \in {0, 1, 15, 30, 59}}

\* a call about to be made, of the times of minutes a and b of the day
CallOf(a, b) ==
    [called |-> FALSE, inMinute |-> a, outMinute |-> b,
     punchInTime |-> formatTime(a), punchOutTime |-> formatTime(b), result |-> NaN]

InitCalc ==
    /\ directory = SampleDirectory
    /\ ledger = <<>>
    /\ now = [day |-> 1, minute |-> 540]
    /\ request = NoRequest
    /\ before = <<>>
    /\ response = NoResponse
    /\ calc \in {CallOf(a, b) : a \in CalcMinutes, b \in CalcMinutes}
    /\ check = NoCheck
    /\ handlers = NoHandlers
    /\ listed = NoListing
    /\ twin = NoTwin

Calculate ==
    /\ ~calc.called
    /\ calc' = [calc EXCEPT !.called = TRUE,
                            !.result = calculateWorkingHours(calc.punchInTime,
                                                             calc.punchOutTime)]
    /\ UNCHANGED <<directory, ledger, now, request, before, response, check, handlers, listed, twin>>

NextCalc == Calculate

SpecCalc == InitCalc /\ [][NextCalc]_vars

----------------------------------------------------------------------------
(* C7: for every directory row (name, dob) with a name, when it is the     *)
(* first row for that name (names compared trimmed): validateEmployee      *)
(* (name, dob) is true and validateEmployee(name, d) is false for every d  *)
(* that differs, trimmed, from dob; and validateEmployee(n, d) is false    *)
(* for every n that no row is for.                                         *)

C7_FirstRowDecides ==
    check.called =>
        /\ \A i \in DOMAIN directory :
            (RowFor(directory[i], check.employeeName) /\ FirstForName(directory, i))
            => (check.result <=> StoredDob(directory[i]) = trim(check.dateOfBirth))
        /\ ~KnownName(directory, check.employeeName) => ~check.result

\* the claim as made, of every row
C7_AsClaimed ==
    check.called =>
        /\ \A i \in DOMAIN directory :
            RowFor(directory[i], check.employeeName)
            => (check.result <=> StoredDob(directory[i]) = trim(check.dateOfBirth))
        /\ ~KnownName(directory, check.employeeName) => ~check.result

\* the date of birth of a second row for the name was presented and refused
C7_Witness ==
    /\ check.called /\ ~check.result
    /\ \E i \in DOMAIN directory :
        /\ RowFor(directory[i], check.employeeName)
        /\ ~FirstForName(directory, i)
        /\ StoredDob(directory[i]) = trim(check.dateOfBirth)

----------------------------------------------------------------------------
(* C8: a punch request naming an employee the directory does not know and  *)
(* the same punch naming a known employee with a wrong date of birth get   *)
(* the identical response, success=false, and leave the identical,         *)
(* unchanged ledger.                                                       *)

WrongDob(dir, n, d) == KnownName(dir, n) /\ ~RightCredentials(dir, n, d)

C8_SameRejection ==
    (WellFormed /\ ~KnownName(directory, request.employeeName)) =>
        /\ ~response.success
        /\ ledger = before
        /\ \A n \in RequestNames, d \in RequestDobs :
            (n # <<>> /\ d # <<>> /\ WrongDob(directory, n, d))
            => processPunch(directory, before, request.at, n, d, request.punchType)
                 = [response |-> response, ledger |-> ledger]

\* an unknown name was refused over a ledger with rows, in a directory that
\* has a known name to compare with
C8_Witness ==
    /\ WellFormed /\ request.employeeName = Zed
    /\ before # <<>>
    /\ WrongDob(directory, Jane, JohnDob)
    /\ response.message.text = "Employee not found or date of birth is incorrect."

----------------------------------------------------------------------------
(* C9: for in- and out-times of the form HH:mm calculateWorkingHours is    *)
(* the elapsed time in hours to the nearest hundredth, the elapsed minutes *)
(* being out - in when out >= in and out - in + 24h when out < in; 09:00   *)
(* to 17:00 is 8.00, 09:00 to 16:30 is 7.50, 22:00 to 06:00 is 8.00.       *)

Elapsed(inMinute, outMinute) ==
    IF outMinute >= inMinute THEN outMinute - inMinute
    ELSE outMinute - inMinute + 24 * 60

C9_ElapsedHours ==
    calc.called =>
        LET m == Elapsed(calc.inMinute, calc.outMinute) IN
        /\ ~calc.result.nan
        /\ 60 * calc.result.v - 100 * m \in -30..30
        /\ (calc.inMinute = 540 /\ calc.outMinute = 1020) => calc.result.v = 800
        /\ (calc.inMinute = 540 /\ calc.outMinute = 990) => calc.result.v = 750
        /\ (calc.inMinute = 1320 /\ calc.outMinute = 360) => calc.result.v = 800

\* 22:00 to 06:00 was computed
C9_Witness ==
    /\ calc.called
    /\ calc.punchInTime = <<"2", "2", ":", "0", "0">>
    /\ calc.punchOutTime = <<"0", "6", ":", "0", "0">>
    /\ calc.result = Num(800)

----------------------------------------------------------------------------
(* C10: a successful punch-out writes total hours =                        *)
(* calculateWorkingHours(stored punch-in time, current time) and status    *)
(* "On Time" exactly when the total is >= 8, else "Less Hours"; 09:00 to   *)
(* 17:15 gives 8.25 and "On Time".                                         *)

C10_HoursAndStatus ==
    (IsPunch /\ request.punchType = "out" /\ response.success) =>
        /\ \E k \in Mine(before) : IsOpen(before[k])
        /\ \A k \in Mine(before) : IsOpen(before[k]) =>
            LET total == ledger[k].totalHours IN
            /\ ~total.empty
            /\ total.n = calculateWorkingHours(before[k].punchIn,
                                               formatTime(request.at.minute))
            /\ ~total.n.nan
            /\ ledger[k].status = IF total.n.v >= 800 THEN "On Time" ELSE "Less Hours"
            /\ (before[k].punchIn = formatTime(540) /\ request.at.minute = 1035)
                => (total.n.v = 825 /\ ledger[k].status = "On Time")

\* 09:00 to 17:15 was recorded as 8.25, "On Time"
C10_Witness ==
    /\ PunchedOut /\ response.success
    /\ request.at.minute = 1035
    /\ \E k \in Mine(ledger) :
        /\ ledger[k].punchIn = formatTime(540)
        /\ ledger[k].totalHours = Hours(Num(825))
        /\ ledger[k].status = "On Time"

----------------------------------------------------------------------------
(* calculateWorkingHours called on its own, over texts that are and are    *)
(* not of the form hour:minute, as a hand-edited punch-in cell may hold.   *)

TimeTexts ==
    {formatTime(540), formatTime(1020), <<>>, <<"9">>, <<"9", "a", "m">>,
     <<"0", "9", "-", "0", "0">>, <<"0", "9", ":", "x", "x">>, <<":", "3", "0">>}

\* a call about to be made, of the texts a and b
CallOfText(a, b) ==
    [called |-> FALSE, inMinute |-> 0, outMinute |-> 0,
     punchInTime |-> a, punchOutTime |-> b, result |-> NaN]

InitCalcText ==
    /\ directory = SampleDirectory
    /\ ledger = <<>>
    /\ now = [day |-> 1, minute |-> 540]
    /\ request = NoRequest
    /\ before = <<>>
    /\ response = NoResponse
    /\ calc \in {CallOfText(a, b) : a \in TimeTexts, b \in TimeTexts}
    /\ check = NoCheck
    /\ handlers = NoHandlers
    /\ listed = NoListing
    /\ twin = NoTwin

SpecCalcText == InitCalcText /\ [][NextCalc]_vars

\* the text t has an hour and a minute: digits, a colon, digits
IsHourMinute(t) ==
    \E i \in 2..(Len(t) - 1) :
        /\ t[i] = ":"
        /\ \A j \in 1..Len(t) : j # i => IsDigit(t[j])

----------------------------------------------------------------------------
(* C11: calculateWorkingHours returns the number 0 whenever one of the two *)
(* time texts is not of the form hour:minute.                              *)

C11_ZeroOnParseFailure ==
    (calc.called /\ (~IsHourMinute(calc.punchInTime) \/ ~IsHourMinute(calc.punchOutTime)))
        => calc.result = Num(0)

----------------------------------------------------------------------------
(* Requests handled at the same time.  The script takes no lock, so every  *)
(* call of the Spreadsheet service is a step of its own and the steps of   *)
(* different executions interleave: the read of findTodayRecord, then      *)
(* appendRow, or the three setValue calls of processPunchOut.              *)

RaceRequests ==
    {PunchRequest(Jane, JaneDob, "in"), PunchRequest(Jane, JaneDob, "out"),
     PunchRequest(John, JohnDob, "in")}

\* the appends the executions have decided on and not made yet
PendingAppends == Cardinality({p \in Handlers : handlers[p].pc = "appendRow"})

\* processPunch down to the read of findTodayRecord and the decision taken on
\* it: a refusal is returned at once, otherwise the writes are still to come
Begin(p, employeeName, dateOfBirth, punchType) ==
    LET decided == processPunch(directory, ledger, now, employeeName, dateOfBirth, punchType)
        existingRecord == findTodayRecord(ledger, employeeName, formatDate(Today(now)))
        go == decided.response.success
    IN /\ handlers[p].pc \in {"idle", "done"}
       /\ (go /\ punchType = "in") => Len(ledger) + PendingAppends < MaxRows
       /\ handlers' = [handlers EXCEPT ![p] =
              [pc |-> IF ~go THEN "done"
                      ELSE IF punchType = "in" THEN "appendRow" ELSE "setPunchOut",
               employeeName |-> employeeName, punchType |-> punchType, at |-> now,
               existingRecord |-> IF go THEN existingRecord ELSE NullRecord,
               response |-> IF go THEN NoResponse ELSE decided.response]]
       /\ UNCHANGED <<directory, ledger, now, response, calc, check, listed, twin>>

Receive(p, employeeName, dateOfBirth, punchType) ==
    /\ Begin(p, employeeName, dateOfBirth, punchType)
    /\ UNCHANGED <<request, before>>

\* Sheet.appendRow putting the row above the data rows
appendRowAtTop(attendanceSheet, rowContents) == <<rowContents>> \o attendanceSheet

\* Sheet.appendRow writing one row more than it should
appendRowTwice(attendanceSheet, rowContents) ==
    Append(Append(attendanceSheet, rowContents), rowContents)

\* Sheet.appendRow
appendRow(attendanceSheet, rowContents) == Append(attendanceSheet, rowContents)

\* attendanceSheet.appendRow(...) and the return of processPunchIn
AppendRow(p) ==
    LET h == handlers[p]
        currentTime == formatTime(h.at.minute)
    IN /\ h.pc = "appendRow"
       /\ ledger' = appendRow(ledger, NewRow(h.employeeName, formatDate(Today(h.at)),
                                             currentTime))
       /\ handlers' = [handlers EXCEPT ![p].pc = "done",
              ![p].existingRecord = NullRecord,
              ![p].response = createJsonResponse(TRUE,
                                  MessageAt("Punch-in successful at", currentTime))]
       /\ UNCHANGED <<directory, now, request, before, response, calc, check, listed, twin>>

\* getRange(existingRecord.row, 4).setValue(currentTime)
SetPunchOut(p) ==
    LET h == handlers[p] IN
    /\ h.pc = "setPunchOut"
    /\ ledger' = [ledger EXCEPT ![h.existingRecord.row - 1].punchOut =
                                    formatTime(h.at.minute)]
    /\ handlers' = [handlers EXCEPT ![p].pc = "setTotalHours"]
    /\ UNCHANGED <<directory, now, request, before, response, calc, check, listed, twin>>

\* getRange(existingRecord.row, 5).setValue(totalHours)
SetTotalHours(p) ==
    LET h == handlers[p]
        totalHours == calculateWorkingHours(h.existingRecord.punchInTime,
                                            formatTime(h.at.minute))
    IN /\ h.pc = "setTotalHours"
       /\ ledger' = [ledger EXCEPT ![h.existingRecord.row - 1].totalHours =
                                       Hours(totalHours)]
       /\ handlers' = [handlers EXCEPT ![p].pc = "setStatus"]
       /\ UNCHANGED <<directory, now, request, before, response, calc, check, listed, twin>>

\* getRange(existingRecord.row, 6).setValue(status) and the return of
\* processPunchOut
SetStatus(p) ==
    LET h == handlers[p]
        currentTime == formatTime(h.at.minute)
        totalHours == calculateWorkingHours(h.existingRecord.punchInTime, currentTime)
        status == statusOf(totalHours)
    IN /\ h.pc = "setStatus"
       /\ ledger' = [ledger EXCEPT ![h.existingRecord.row - 1].status = status]
       /\ handlers' = [handlers EXCEPT ![p].pc = "done",
              ![p].existingRecord = NullRecord,
              ![p].response = createJsonResponse(TRUE,
                  [text |-> "Punch-out successful at", time |-> currentTime,
                   hours |-> totalHours, status |-> status])]
       /\ UNCHANGED <<directory, now, request, before, response, calc, check, listed, twin>>

\* the clock readings of the executions that overlap: 09:00 and 17:00 of
\* one day, and 09:00 of the next
RaceClocks ==
    {c \in Clocks : (c.day = 1 /\ c.minute <= 1020) \/ (c.day = 2 /\ c.minute = 540)}

\* time passes while executions are under way
TickRace ==
    /\ \E c \in RaceClocks : Later(now, c) /\ now' = c
    /\ UNCHANGED <<directory, ledger, request, before, response, calc, check, handlers,
                   listed, twin>>

InitRace ==
    /\ directory = SampleDirectory
    /\ ledger = <<>>
    /\ now \in {c \in RaceClocks : c.day = 1}
    /\ request = NoRequest
    /\ before = <<>>
    /\ response = NoResponse
    /\ calc = NoCalc
    /\ check = NoCheck
    /\ handlers = NoHandlers
    /\ listed = NoListing
    /\ twin = NoTwin

NextRace ==
    \/ \E p \in Handlers, r \in RaceRequests :
           Receive(p, r.employeeName, r.dateOfBirth, r.punchType)
    \/ \E p \in Handlers : AppendRow(p)
    \/ \E p \in Handlers : SetPunchOut(p)
    \/ \E p \in Handlers : SetTotalHours(p)
    \/ \E p \in Handlers : SetStatus(p)
    \/ TickRace

SpecRace == InitRace /\ [][NextRace]_vars

----------------------------------------------------------------------------
(* One request at a time over a Spreadsheet service whose calls may throw  *)
(* (a quota, a time-out, a lost connection): the exception leaves          *)
(* processPunchIn or processPunchOut and reaches the catch of processPunch.*)

\* a write throws: catch (error) of processPunch
Throw(p) ==
    /\ handlers[p].pc \in {"appendRow", "setPunchOut", "setTotalHours", "setStatus"}
    /\ handlers' = [handlers EXCEPT ![p].pc = "done",
           ![p].existingRecord = NullRecord,
           ![p].response = createJsonResponse(FALSE, Message("Error processing punch:"))]
    /\ UNCHANGED <<directory, ledger, now, request, before, response, calc, check,
                   listed, twin>>

\* the one execution takes a request when it has finished the last
ReceiveAlone(employeeName, dateOfBirth, punchType) ==
    /\ Begin(1, employeeName, dateOfBirth, punchType)
    /\ request' = [action |-> "punch", employeeName |-> employeeName,
                   dateOfBirth |-> dateOfBirth, punchType |-> punchType, at |-> now]
    /\ before' = ledger

NextFaulty ==
    \/ \E r \in RaceRequests : ReceiveAlone(r.employeeName, r.dateOfBirth, r.punchType)
    \/ AppendRow(1)
    \/ SetPunchOut(1)
    \/ SetTotalHours(1)
    \/ SetStatus(1)
    \/ Throw(1)
    \/ TickRace

SpecFaulty == InitRace /\ [][NextFaulty]_vars

----------------------------------------------------------------------------
(* C12: a punch request that has returned has either made the whole       *)
(* change to the ledger and returned success=true, or returned             *)
(* success=false and left the ledger as it found it, also when a call of   *)
(* the Spreadsheet service fails between the writes of a punch-out.        *)

C12_AllOrNothing ==
    handlers[1].pc = "done" =>
        IF handlers[1].response.success
        THEN ledger = processPunch(directory, before, request.at, request.employeeName,
                                   request.dateOfBirth, request.punchType).ledger
        ELSE ledger = before

----------------------------------------------------------------------------
(* C13: two punch-in requests of one employee on one day whose executions  *)
(* interleave, each reading the ledger before the other appends, both      *)
(* return success=true and leave two "In Progress" rows for that employee  *)
(* and date.                                                               *)

\* execution p has returned from a punch request of the given type with success
Succeeded(p, punchType) ==
    /\ handlers[p].pc = "done"
    /\ handlers[p].punchType = punchType
    /\ handlers[p].response.success

\* the executions p and q served the same employee on the same day
SameEmployeeAndDay(p, q) ==
    /\ p # q
    /\ trim(handlers[p].employeeName) = trim(handlers[q].employeeName)
    /\ DateOf(handlers[p].at) = DateOf(handlers[q].at)

\* the open "In Progress" rows of the employee and day execution p served
OpenRowsOf(p) ==
    {k \in RecordsOf(ledger, handlers[p].employeeName, DateOf(handlers[p].at)) :
        IsOpen(ledger[k]) /\ ledger[k].status = "In Progress"}

C13_RaceDuplicates ==
    \A p \in Handlers, q \in Handlers :
        (SameEmployeeAndDay(p, q) /\ Succeeded(p, "in") /\ Succeeded(q, "in"))
            => Cardinality(OpenRowsOf(p)) = 2

C13_Witness ==
    /\ SameEmployeeAndDay(1, 2)
    /\ Succeeded(1, "in") /\ Succeeded(2, "in")
    /\ Len(ledger) = 2
    /\ \A k \in 1..2 : k \in OpenRowsOf(1)

----------------------------------------------------------------------------
(* getEmployees: doGet with action=getEmployees, over every directory of   *)
(* up to MaxDirRows rows whose name cells are empty, blank, padded or      *)
(* plain, and over ledgers that hold rows.                                 *)

\* employeeData.map(row => row[0])
firstColumn(employeeData) == [i \in 1..Len(employeeData) |-> employeeData[i].name]

\* filter keeping every name that is not the empty text
RECURSIVE filterNonEmpty(_)
filterNonEmpty(names) ==
    IF names = <<>> THEN <<>>
    ELSE IF Head(names) # <<>>
    THEN <<Head(names)>> \o filterNonEmpty(Tail(names))
    ELSE filterNonEmpty(Tail(names))

\* filter(name => name && name.toString().trim() !== '')
RECURSIVE filterNames(_)
filterNames(names) ==
    IF names = <<>> THEN <<>>
    ELSE IF Head(names) # <<>> /\ trim(Head(names)) # <<>>
    THEN <<Head(names)>> \o filterNames(Tail(names))
    ELSE filterNames(Tail(names))

getEmployees(dir) ==
    IF Len(dir) + 1 <= 1
    THEN [success |-> TRUE, message |-> Message("No employees found."),
          employees |-> <<>>]
    ELSE [success |-> TRUE, message |-> Message("Employees retrieved successfully."),
          employees |-> filterNames(firstColumn(dir))]

ListRows ==
    [name : {<<>>, <<" ">>, Jane, <<" ">> \o Jane, John}, dob : {TextCell(JaneDob)}]

InitList ==
    /\ directory \in UNION {[1..k -> ListRows] : k \in 0..MaxDirRows}
    /\ ledger \in {<<>>} \cup SeedLedgers
    /\ now = [day |-> 1, minute |-> 540]
    /\ request = NoRequest
    /\ before = ledger
    /\ response = NoResponse
    /\ calc = NoCalc
    /\ check = NoCheck
    /\ handlers = NoHandlers
    /\ listed = NoListing
    /\ twin = NoTwin

\* doGet with e.parameter.action === 'getEmployees'
GetEmployees ==
    LET got == getEmployees(directory) IN
    /\ listed' = [called |-> TRUE, success |-> got.success, message |-> got.message,
                  employees |-> got.employees]
    /\ UNCHANGED <<directory, ledger, now, request, before, response, calc, check,
                   handlers, twin>>

NextList == GetEmployees

SpecList == InitList /\ [][NextList]_vars

----------------------------------------------------------------------------
(* C14: getEmployees returns success=true with exactly the names of the    *)
(* directory that are not blank, in row order (none when the directory has *)
(* no data rows), and leaves the ledger as it was.                         *)

IsBlank(name) == trim(name) = <<>>

NotBlank(name) == ~IsBlank(name)

C14_ListsNonBlankNames ==
    listed.called =>
        /\ listed.success
        /\ listed.employees = SelectSeq(firstColumn(directory), NotBlank)
        /\ directory = <<>> => listed.employees = <<>>
        /\ ledger = before

C14_Witness ==
    /\ listed.called
    /\ Len(directory) = 2
    /\ directory[1].name = <<" ">>
    /\ listed.employees = << <<" ">> \o Jane >>
    /\ ledger # <<>>

----------------------------------------------------------------------------
(* C15: a successful punch-out changes the punch-out time, the total hours *)
(* and the status of one row, the last record of (employee, today), and    *)
(* nothing else: that row keeps its name, date and punch-in time, every    *)
(* other row is as it was, and no row is added or removed.                 *)

C15_PunchOutFrame ==
    (PunchedOut /\ response.success) =>
        /\ Mine(before) # {}
        /\ Len(ledger) = Len(before)
        /\ LET k == LastOf(Mine(before)) IN
            /\ \A j \in DOMAIN before : j # k => ledger[j] = before[j]
            /\ ledger[k].name = before[k].name
            /\ ledger[k].date = before[k].date
            /\ ledger[k].punchIn = before[k].punchIn
            /\ ledger[k].punchOut # before[k].punchOut
            /\ ledger[k].totalHours # before[k].totalHours
            /\ ledger[k].status # before[k].status
        /\ directory = SampleDirectory

\* a punch-out found two open rows of the employee and day, closed the second
\* and left the first open
C15_Witness ==
    /\ PunchedOut /\ response.success
    /\ Mine(before) = {1, 2}
    /\ IsOpen(before[1]) /\ IsOpen(before[2])
    /\ IsOpen(ledger[1])
    /\ IsTerminal(ledger[2])

----------------------------------------------------------------------------
(* C16: findTodayRecord(employee, date) returns the record of (employee,   *)
(* date) with the highest row index, and none exactly when the ledger has  *)
(* no record of them (so also when it has no data rows); when the ledger   *)
(* holds several records of one employee and day, a punch request is       *)
(* decided on the last of them.                                            *)

C16_LatestRecord ==
    /\ \A e \in RequestNames, d \in Dates :
        LET found == findTodayRecord(ledger, e, d)
            S == RecordsOf(ledger, e, d)
        IN /\ found.found <=> S # {}
           /\ S # {} =>
                /\ found.row = LastOf(S) + 1
                /\ found.punchInTime = ledger[LastOf(S)].punchIn
                /\ found.punchOutTime = ledger[LastOf(S)].punchOut
    /\ (PunchedIn /\ Mine(before) # {} /\ before[LastOf(Mine(before))].punchIn # <<>>)
        => /\ ~response.success
           /\ response.message.time = before[LastOf(Mine(before))].punchIn
    /\ (PunchedIn /\ Mine(before) # {} /\ before[LastOf(Mine(before))].punchIn = <<>>)
        => response.success

\* a punch-in found two records with different punch-in times and was refused
\* with the time of the second
C16_Witness ==
    /\ PunchedIn /\ ~response.success
    /\ Mine(before) = {1, 2}
    /\ before[1].punchIn # before[2].punchIn
    /\ response.message.time = before[2].punchIn
    /\ findTodayRecord(ledger, request.employeeName, DateOf(request.at)).row = 3

----------------------------------------------------------------------------
(* doPost as a whole: punch requests and requests with another action,     *)
(* over every directory and over ledgers that hold rows, the clock         *)
(* standing still.                                                         *)

\* the actions a request may name that doPost does not know: that of doGet,
\* and none
OtherActions == {"getEmployees", ""}

\* doPost with data.action other than 'punch'
Unrecognized(action) ==
    LET data == [action |-> action, employeeName |-> Jane, dateOfBirth |-> JaneDob,
                 punchType |-> "in"]
        done == doPost(directory, ledger, now, data)
    IN /\ request' = [action |-> action, employeeName |-> data.employeeName,
                      dateOfBirth |-> data.dateOfBirth,
                      punchType |-> data.punchType, at |-> now]
       /\ before' = ledger
       /\ response' = done.response
       /\ ledger' = done.ledger
       /\ UNCHANGED <<directory, now, calc, check, handlers, listed, twin>>

InitPost ==
    /\ directory \in Directories
    /\ ledger \in {<<>>} \cup SeedLedgers
    /\ now \in {c \in Clocks : c.day = 1}
    /\ request = NoRequest
    /\ before = ledger
    /\ response = NoResponse
    /\ calc = NoCalc
    /\ check = NoCheck
    /\ handlers = NoHandlers
    /\ listed = NoListing
    /\ twin = NoTwin

NextPost ==
    \/ \E r \in Requests : Punch(r.employeeName, r.dateOfBirth, r.punchType)
    \/ \E a \in OtherActions : Unrecognized(a)

SpecPost == InitPost /\ [][NextPost]_vars

----------------------------------------------------------------------------
(* C17: a request with an action that is not recognized, a punch request   *)
(* without employeeName, dateOfBirth or punchType, one with a punch type   *)
(* other than in and out, and one whose credentials validateEmployee       *)
(* rejects, each get success=false and leave the ledger as it was; the     *)
(* ledger is not read either: the response is the one the request would    *)
(* get over any other ledger.                                              *)

\* a request has been handled
Handled == request.action # "none"

\* the request fails a check made before the ledger is opened
FailsACheck ==
    /\ Handled
    /\ \/ ~IsPunch
       \/ request.employeeName = <<>>
       \/ request.dateOfBirth = <<>>
       \/ request.punchType \notin {"in", "out"}
       \/ ~RightCredentials(directory, request.employeeName, request.dateOfBirth)

\* ledgers the request could have met instead: none, and one with an open
\* record of Jane and a closed record of John
OtherLedgers ==
    {<<>>,
     <<NewRow(Jane, formatDate(DayOne), formatTime(540)),
       [NewRow(John, formatDate(DayOne), formatTime(540)) EXCEPT
           !.punchOut = formatTime(1020), !.totalHours = Hours(Num(800)),
           !.status = "On Time"]>>}

C17_RefusedBeforeLedger ==
    FailsACheck =>
        /\ ~response.success
        /\ ledger = before
        /\ \A sheet \in OtherLedgers :
               doPost(directory, sheet, request.at, request).response = response

\* each kind of refusal, over a ledger that holds a row: a wrong date of
\* birth for a name of the directory, a missing field, an action that is not
\* recognized, a punch type that does not exist
C17_Witness ==
    /\ FailsACheck /\ before # <<>>
    /\ WellFormed
    /\ KnownName(directory, request.employeeName)
    /\ response.message.text = "Employee not found or date of birth is incorrect."

C17_WitnessMissing ==
    /\ FailsACheck /\ before # <<>>
    /\ response.message.text = "Missing required parameters."

C17_WitnessAction == FailsACheck /\ before # <<>> /\ ~IsPunch

C17_WitnessType ==
    /\ FailsACheck /\ before # <<>>
    /\ response.message.text = "Invalid punch type."

----------------------------------------------------------------------------
(* C18: a record is closed by one punch-out only: of two punch-out         *)
(* requests of one employee on one day, also when their executions         *)
(* interleave, at most one returns success=true.                           *)

C18_ClosedOnce ==
    \A p \in Handlers, q \in Handlers :
        ~(SameEmployeeAndDay(p, q) /\ Succeeded(p, "out") /\ Succeeded(q, "out"))

----------------------------------------------------------------------------
(* The second variant of the backend, src/unnamed/part_001, run side by    *)
(* side with the first on the same requests and the same clock.  Its       *)
(* operators carry the suffix _001.  TIMEZONE is the offset of the local   *)
(* time from the clock in minutes: 0 for 'GMT+0', 120 for 'Europe/Warsaw'  *)
(* in June.  A Date cell holds a calendar date, the same in both zones.    *)

TIMEZONE == 0
TIMEZONE_001 == 120

MinutesPerDay == 1440

\* the clock reading as the local time of a zone
inTimezone(clock, timezone) ==
    [day |-> clock.day + ((clock.minute + timezone) \div MinutesPerDay),
     minute |-> (clock.minute + timezone) % MinutesPerDay]

\* if (lastRow <= 1) return false, otherwise the same loop
validateEmployee_001(dir, employeeName, dateOfBirth) ==
    IF Len(dir) + 1 <= 1 THEN FALSE
    ELSE validateRows(dir, employeeName, dateOfBirth)

\* the date cell as text: a Date is formatted, text is trimmed
dateString_001(date) == IF date.isDate THEN formatDate(date.date) ELSE trim(date.text)

RECURSIVE scanBackwards_001(_, _, _, _)
scanBackwards_001(attendanceData, k, employeeName, currentDate) ==
    IF k < 1 THEN NullRecord
    ELSE IF trim(attendanceData[k].name) = trim(employeeName)
            /\ dateString_001(attendanceData[k].date) = currentDate
    THEN [found |-> TRUE, row |-> k + 1,
          punchInTime |-> attendanceData[k].punchIn,
          punchOutTime |-> attendanceData[k].punchOut]
    ELSE scanBackwards_001(attendanceData, k - 1, employeeName, currentDate)

findTodayRecord_001(attendanceSheet, employeeName, currentDate) ==
    IF Len(attendanceSheet) + 1 <= 1 THEN NullRecord
    ELSE scanBackwards_001(attendanceSheet, Len(attendanceSheet), employeeName,
                           currentDate)

processPunchIn_001(attendanceSheet, employeeName, currentDate, currentTime) ==
    LET existingRecord == findTodayRecord_001(attendanceSheet, employeeName, currentDate) IN
    IF existingRecord.found /\ existingRecord.punchInTime # <<>>
    THEN [response |-> createJsonResponse(FALSE,
              MessageAt("You have already punched in today at",
                        existingRecord.punchInTime)),
          ledger |-> attendanceSheet]
    ELSE [response |-> createJsonResponse(TRUE,
              MessageAt("Punch-in recorded successfully at", currentTime)),
          ledger |-> Append(attendanceSheet,
                            NewRow(employeeName, currentDate, currentTime))]

\* totalHours >= 8 ? 'On Time' : 'Less Hours'
statusOf_001(totalHours) ==
    IF ~totalHours.nan /\ totalHours.v >= 8 * 100 THEN "On Time" ELSE "Less Hours"

\* processPunchOut_001 without the check for a recorded punch-out
processPunchOutAgain_001(attendanceSheet, employeeName, currentDate, currentTime) ==
    LET existingRecord == findTodayRecord_001(attendanceSheet, employeeName, currentDate) IN
    IF ~existingRecord.found \/ existingRecord.punchInTime = <<>>
    THEN [response |-> createJsonResponse(FALSE,
              Message("No punch-in record found for today. Please punch in first.")),
          ledger |-> attendanceSheet]
    ELSE closeRecord(attendanceSheet, existingRecord, currentTime)

processPunchOut_001(attendanceSheet, employeeName, currentDate, currentTime) ==
    LET existingRecord == findTodayRecord_001(attendanceSheet, employeeName, currentDate) IN
    IF ~existingRecord.found \/ existingRecord.punchInTime = <<>>
    THEN [response |-> createJsonResponse(FALSE,
              Message("No punch-in record found for today. Please punch in first.")),
          ledger |-> attendanceSheet]
    ELSE IF existingRecord.punchOutTime # <<>>
    THEN [response |-> createJsonResponse(FALSE,
              MessageAt("You have already punched out today at",
                        existingRecord.punchOutTime)),
          ledger |-> attendanceSheet]
    ELSE LET totalHours == calculateWorkingHours(existingRecord.punchInTime, currentTime)
             status == statusOf_001(totalHours)
             k == existingRecord.row - 1
         IN [response |-> createJsonResponse(TRUE,
                 [text |-> "Punch-out recorded at", time |-> currentTime,
                  hours |-> totalHours, status |-> status]),
             ledger |-> [attendanceSheet EXCEPT ![k].punchOut = currentTime,
                                                ![k].totalHours = Hours(totalHours),
                                                ![k].status = status]]

\* processPunch of the variant, with its TIMEZONE set to timezone
processPunch_001(dir, attendanceSheet, clock, timezone, employeeName, dateOfBirth, punchType) ==
    IF employeeName = <<>> \/ dateOfBirth = <<>> \/ punchType = ""
    THEN [response |-> createJsonResponse(FALSE, Message("Missing required parameters.")),
          ledger |-> attendanceSheet]
    ELSE IF punchType # "in" /\ punchType # "out"
    THEN [response |-> createJsonResponse(FALSE, Message("Invalid punch type specified.")),
          ledger |-> attendanceSheet]
    ELSE IF ~validateEmployee_001(dir, employeeName, dateOfBirth)
    THEN [response |-> createJsonResponse(FALSE,
              Message("Employee not found or date of birth is incorrect.")),
          ledger |-> attendanceSheet]
    ELSE LET local == inTimezone(clock, timezone)
             currentDate == formatDate(Today(local))
             currentTime == formatTime(local.minute)
         IN IF punchType = "in"
            THEN processPunchIn_001(attendanceSheet, employeeName, currentDate, currentTime)
            ELSE processPunchOut_001(attendanceSheet, employeeName, currentDate,
                                     currentTime)

\* the zones the variant may be set to: that of the first backend and its own
Timezones == {TIMEZONE, TIMEZONE_001}

TwinRequests == RaceRequests \cup {PunchRequest(Jane, JohnDob, "in")}

\* an open row whose date was typed with a space before it
PaddedDateRow ==
    [NewRow(Jane, <<>>, formatTime(540)) EXCEPT
        !.date = TextCell(<<" ">> \o formatDate(DayOne))]

InitTwin ==
    /\ directory = SampleDirectory
    /\ ledger \in {<<>>, <<PaddedDateRow>>}
    /\ now \in {c \in Clocks : c.day = 1}
    /\ request = NoRequest
    /\ before = ledger
    /\ response = NoResponse
    /\ calc = NoCalc
    /\ check = NoCheck
    /\ handlers = NoHandlers
    /\ listed = NoListing
    /\ twin \in {[timezone |-> z, ledger |-> ledger, response |-> NoResponse] :
                    z \in Timezones}

\* doPost with data.action === 'punch', handled by both backends
PunchBoth(employeeName, dateOfBirth, punchType) ==
    LET done == processPunch(directory, ledger, now, employeeName, dateOfBirth, punchType)
        done_001 == processPunch_001(directory, twin.ledger, now, twin.timezone,
                                     employeeName, dateOfBirth, punchType)
    IN /\ request' = [action |-> "punch", employeeName |-> employeeName,
                      dateOfBirth |-> dateOfBirth, punchType |-> punchType, at |-> now]
       /\ before' = ledger
       /\ response' = done.response
       /\ ledger' = done.ledger
       /\ twin' = [twin EXCEPT !.ledger = done_001.ledger, !.response = done_001.response]
       /\ Len(done.ledger) <= MaxRows
       /\ Len(done_001.ledger) <= MaxRows
       /\ UNCHANGED <<directory, now, calc, check, handlers, listed>>

NextTwin ==
    \/ \E r \in TwinRequests : PunchBoth(r.employeeName, r.dateOfBirth, r.punchType)
    \/ Tick

SpecTwin == InitTwin /\ [][NextTwin]_vars

----------------------------------------------------------------------------
(* C19: the two backends, set to the same timezone and run side by side    *)
(* from the same directory and from a ledger in which no date is text with *)
(* white space around it, return the same success flag for every request   *)
(* and keep identical ledgers.                                             *)

\* no date cell of the sheet holds text with white space around it
Unpadded(sheet) ==
    \A k \in DOMAIN sheet :
        ~sheet[k].date.isDate => trim(sheet[k].date.text) = sheet[k].date.text

C19_SameZoneSameLedgers ==
    (IsPunch /\ twin.timezone = TIMEZONE /\ Unpadded(before)) =>
        /\ twin.response.success = response.success
        /\ twin.ledger = ledger

\* C19 as claimed: the two backends as they are, over any ledger
C19_AsClaimed ==
    IsPunch =>
        /\ twin.response.success = response.success
        /\ twin.ledger = ledger

\* both backends, in one zone, have taken a punch-in and closed it
C19_Witness ==
    /\ PunchedOut /\ response.success /\ twin.response.success
    /\ twin.timezone = TIMEZONE /\ Unpadded(before)
    /\ response.message.text # twin.response.message.text
    /\ IsTerminal(ledger[1]) /\ twin.ledger = ledger

\* the equivalence without the condition on the zones, which the code does
\* not meet: the rows differ in the times written
C19_ZonesDiffer ==
    (IsPunch /\ Unpadded(before)) =>
        /\ twin.response.success = response.success
        /\ twin.ledger = ledger

\* the equivalence without the condition on the dates, which the code does
\* not meet: the variant finds the row the first backend misses
C19_PaddedDiffers ==
    (IsPunch /\ twin.timezone = TIMEZONE) =>
        /\ twin.response.success = response.success
        /\ twin.ledger = ledger

----------------------------------------------------------------------------
(* C20: a record is closed on the day it was opened or never.  With the    *)
(* clock moving forward and requests handled one at a time: no request     *)
(* changes a row of another date than its own, so a record left open when  *)
(* the date advances stays "In Progress"; a punch-out of an employee who   *)
(* has no record of today is refused as without punch-in, whatever earlier *)
(* days hold; and a successful punch-out has an out-time that is not       *)
(* earlier than the in-time, with total hours computed without the         *)
(* overnight step.                                                         *)

\* the minute of the day the time text t stands for
MinuteOf(t) == CHOOSE m \in ClockMinutes : formatTime(m) = t

----------------------------------------------------------------------------
(* C21: from an empty ledger, with requests handled one at a time, every   *)
(* row of the ledger after every request has a punch-in time, has one of   *)
(* the statuses "In Progress", "On Time" and "Less Hours", and has the     *)
(* status "In Progress" exactly when its punch-out time is empty, which is *)
(* exactly when its total hours are empty.                                 *)

RowWellFormed(r) ==
    /\ r.punchIn # <<>>
    /\ r.status \in {"In Progress", "On Time", "Less Hours"}
    /\ (r.status = "In Progress") <=> (r.punchOut = <<>>)
    /\ (r.punchOut = <<>>) <=> r.totalHours.empty

C21_RowsWellFormed == \A k \in DOMAIN ledger : RowWellFormed(ledger[k])

\* a punch-out has closed one record while another is still open
C21_Witness ==
    /\ PunchedOut /\ response.success
    /\ \E i, j \in DOMAIN ledger :
        /\ ledger[i].status = "In Progress" /\ ledger[i].punchOut = <<>>
        /\ ledger[j].status \in {"On Time", "Less Hours"} /\ ledger[j].punchOut # <<>>
        /\ ~ledger[j].totalHours.empty

----------------------------------------------------------------------------
(* C22: under any interleaving of the executions, no step loses or moves a *)
(* row (the row count never decreases and every row keeps its name, date   *)
(* and punch-in time); the row count grows, by one, exactly in the step    *)
(* that completes a successful punch-in; and a step that changes a row is  *)
(* a step of an execution whose request is for the employee and date of    *)
(* that row, so the row a punch-out found is still the row of its employee *)
(* and date when it writes.                                                *)

\* execution p takes a step
Steps(p) == handlers'[p] # handlers[p]

\* execution p completes a punch-in with success in this step
CompletesPunchIn(p) ==
    /\ handlers[p].pc = "appendRow"
    /\ handlers'[p].pc = "done"
    /\ handlers'[p].punchType = "in"
    /\ handlers'[p].response.success

RowsKept ==
    /\ Len(ledger') >= Len(ledger)
    /\ \A k \in DOMAIN ledger :
        /\ ledger'[k].name = ledger[k].name
        /\ ledger'[k].date = ledger[k].date
        /\ ledger'[k].punchIn = ledger[k].punchIn

GrowsOnPunchIn ==
    /\ Len(ledger') # Len(ledger) =>
        /\ Len(ledger') = Len(ledger) + 1
        /\ \E p \in Handlers : CompletesPunchIn(p)
    /\ \A p \in Handlers : CompletesPunchIn(p) => Len(ledger') = Len(ledger) + 1

OwnRowsOnly ==
    \A k \in DOMAIN ledger :
        ledger'[k] # ledger[k] =>
            \E p \in Handlers :
                /\ Steps(p)
                /\ handlers[p].punchType = "out"
                /\ k = handlers[p].existingRecord.row - 1
                /\ RecordOf(ledger[k], handlers[p].employeeName, DateOf(handlers[p].at))

C22_RowsKeptAndOwned == [][RowsKept /\ GrowsOnPunchIn /\ OwnRowsOnly]_vars

\* an execution is between the writes of a punch-out to the first row while
\* the other has appended a row of another employee below it
C22_Witness ==
    \E p \in Handlers, q \in Handlers :
        /\ handlers[p].pc = "setTotalHours"
        /\ handlers[p].existingRecord.row = 2
        /\ ledger[1].punchOut = formatTime(handlers[p].at.minute)
        /\ Succeeded(q, "in")
        /\ Len(ledger) = 2
        /\ RecordOf(ledger[2], handlers[q].employeeName, DateOf(handlers[q].at))
        /\ ~RecordOf(ledger[2], handlers[p].employeeName, DateOf(handlers[p].at))

====
